---- MODULE Spec2Model ----
(***************************************************************************)
(* Window manager of the desktop shell (component App) and, further down,  *)
(* its verification conditions.                                            *)
(*                                                                         *)
(* The component keeps its state in React state cells.  A handler runs on  *)
(* the values captured by its closure at the last render (record c below)  *)
(* and queues updates; the queue of each cell is applied in call order, a  *)
(* plain value replacing the cell and an updater function reading the      *)
(* value left by the updates before it (record s below).  One event is     *)
(* handled and rendered before the next one is delivered.                  *)
(*                                                                         *)
(* Presentation payload of a window (title, icon, component, filePath) is  *)
(* carried by no decision of the handlers and is left out of the records.  *)
(***************************************************************************)
EXTENDS Integers, Sequences, FiniteSets, TLC

\* ------------------------------------------------------------- bounds
\* Number of windows ever created (nextWindowId never exceeds it).
MaxWindowId == 3
\* Number of events delivered in one run of Spec.
MaxEvents == 6
\* Number of events delivered in one run of PairingSpec.
MaxPairingEvents == 8
\* Number of credentials configured (API_KEYS.length).
NumKeys == 2
\* Number of performRequest calls that can be in flight together.
NumCalls == 2

\* ---------------------------------------------------------- constants
InitialZIndex == 10
StaggerStep == 25
StaggerCycle == 10
FallbackWidth == 720
FallbackHeight == 540
menuBarHeight == 28
MenuBarMargin == 10
CenterLift == 40
\* window.innerWidth / window.innerHeight of the browser viewport
innerWidth == 1440
innerHeight == 900

Null == "null"
NoState == <<>>
NoPair == <<>>

\* `win-${nextWindowId}`
WinId(n) == "win-" \o ToString(n)

\* The static application catalog handed to openApp: one single-instance
\* application without a declared default size, one multi-instance
\* application with one.
APPS ==
  { [id |-> "notes", allowMultiInstance |-> FALSE, defaultSize |-> NoState],
    [id |-> "term",  allowMultiInstance |-> TRUE,  defaultSize |-> <<400, 300>>] }

\* Targets of a drag (newX, newY) and of a resize (newWidth, newHeight).
DragTargets == {<<0, 40>>, <<100, 60>>}
ResizeTargets == {<<300, 200>>}

VARIABLES windows, activeWindowId, nextZIndex, launchpadOpen, nextWindowId,
          fullScreenWindowId, windowPairs, pairingWindowId, events, lastOp,
          currentKeyIndex, calls

wmVars == <<windows, activeWindowId, nextZIndex, launchpadOpen, nextWindowId,
            fullScreenWindowId, windowPairs, pairingWindowId>>
aiVars == <<currentKeyIndex, calls>>
vars == <<windows, activeWindowId, nextZIndex, launchpadOpen, nextWindowId,
          fullScreenWindowId, windowPairs, pairingWindowId, events, lastOp,
          currentKeyIndex, calls>>

\* The state cells as one record: the closure of a handler, and the value
\* its queued updates build up.
St ==
  [ windows |-> windows, activeWindowId |-> activeWindowId,
    nextZIndex |-> nextZIndex, launchpadOpen |-> launchpadOpen,
    nextWindowId |-> nextWindowId, fullScreenWindowId |-> fullScreenWindowId,
    windowPairs |-> windowPairs, pairingWindowId |-> pairingWindowId ]

\* ------------------------------------------------------------ helpers
Range(q) == {q[i] : i \in DOMAIN q}

\* Array.prototype.includes
Includes(q, e) == \E i \in DOMAIN q : q[i] = e

HasWindow(ws, id) == \E i \in DOMAIN ws : ws[i].id = id

\* windows.find(w => w.id === id), for an id that is present
FindWindow(ws, id) ==
  ws[CHOOSE i \in DOMAIN ws : ws[i].id = id /\ \A j \in 1..(i - 1) : ws[j].id # id]

\* windowPairs.find(p => p.includes(id)); NoPair stands for undefined
FindPair(pairs, id) ==
  IF \E i \in DOMAIN pairs : Includes(pairs[i], id)
    THEN pairs[CHOOSE i \in DOMAIN pairs :
                 /\ Includes(pairs[i], id)
                 /\ \A j \in 1..(i - 1) : ~Includes(pairs[j], id)]
    ELSE NoPair

\* pair || [id]
GroupOf(pairs, id) ==
  IF FindPair(pairs, id) = NoPair THEN <<id>> ELSE FindPair(pairs, id)

Geometry(win) == <<win.x, win.y, win.width, win.height>>

Max(a, b) == IF a > b THEN a ELSE b

\* remainingWindows.reduce((prev, current) =>
\*     (prev.zIndex > current.zIndex) ? prev : current)
RECURSIVE ReduceTop(_, _, _)
ReduceTop(rem, k, prev) ==
  IF k > Len(rem) THEN prev
  ELSE ReduceTop(rem, k + 1, IF prev.zIndex > rem[k].zIndex THEN prev ELSE rem[k])

TopWindow(rem) == ReduceTop(rem, 2, rem[1])

\* The recomputation of the active window shared by toggleMinimize and
\* closeWindow: the top window among those of the closure's list outside
\* ids that are not minimized, or null.
PromoteNext(c, s, ids) ==
  LET remainingWindows ==
        SelectSeq(c.windows, LAMBDA w : ~Includes(ids, w.id) /\ ~w.isMinimized)
  IN  IF Len(remainingWindows) > 0
        THEN [s EXCEPT !.activeWindowId = TopWindow(remainingWindows).id]
        ELSE [s EXCEPT !.activeWindowId = Null]

\* ----------------------------------------------------------- handlers
\* focusWindow without setNextZIndex(prevZ => prevZ + 1): the counter stays.
focusWindowNoBump(c, s, id) ==
  IF id = c.activeWindowId /\ ~c.launchpadOpen THEN s
  ELSE [s EXCEPT
          !.pairingWindowId = Null,
          !.launchpadOpen = FALSE,
          !.activeWindowId = id,
          !.windows = [i \in DOMAIN s.windows |->
                        LET win == s.windows[i]
                        IN  IF win.id = id
                              THEN [win EXCEPT !.zIndex = c.nextZIndex]
                              ELSE win]]

focusWindow(c, s, id) ==
  IF id = c.activeWindowId /\ ~c.launchpadOpen THEN s
  ELSE [s EXCEPT
          !.pairingWindowId = Null,
          !.launchpadOpen = FALSE,
          !.activeWindowId = id,
          !.windows = [i \in DOMAIN s.windows |->
                        LET win == s.windows[i]
                        IN  IF win.id = id
                              THEN [win EXCEPT !.zIndex = c.nextZIndex]
                              ELSE win],
          !.nextZIndex = s.nextZIndex + 1]

\* One turn of idsToToggle.forEach inside toggleMinimize's updater.
ToggleOne(c, s, winId) ==
  IF ~HasWindow(s.windows, winId) THEN s
  ELSE
    LET windowToToggle == FindWindow(s.windows, winId)
        s1 == IF windowToToggle.isFullScreen
                THEN [s EXCEPT !.fullScreenWindowId = Null] ELSE s
        s2 == IF windowToToggle.isMinimized THEN focusWindow(c, s1, winId) ELSE s1
    IN  [s2 EXCEPT !.windows =
           [i \in DOMAIN s2.windows |->
             LET win == s2.windows[i]
             IN  IF win.id = winId
                   THEN [win EXCEPT !.isMinimized = ~win.isMinimized,
                                    !.isFullScreen = FALSE]
                   ELSE win]]

RECURSIVE ToggleEach(_, _, _, _)
ToggleEach(c, s, ids, k) ==
  IF k > Len(ids) THEN s
  ELSE ToggleEach(c, ToggleOne(c, s, ids[k]), ids, k + 1)

\* The tail of toggleMinimize: promote the next window when the active one
\* was minimized.
MinimizePromote(c, s, id) ==
  LET idsToToggle == GroupOf(c.windowPairs, id)
      isMinimizing == HasWindow(c.windows, id) /\ ~FindWindow(c.windows, id).isMinimized
  IN  IF isMinimizing /\ c.activeWindowId # Null /\ Includes(idsToToggle, c.activeWindowId)
        THEN PromoteNext(c, s, idsToToggle)
        ELSE s

\* The updater handed to setWindows calls setFullScreenWindowId and
\* focusWindow.  React runs an updater either inside the setWindows call
\* (eager: its calls are queued before the handler's later ones) or while
\* rendering (its calls are queued after everything the handler queued).
toggleMinimize(c, s, id, eager) ==
  LET idsToToggle == GroupOf(c.windowPairs, id)
  IN  IF eager
        THEN MinimizePromote(c, ToggleEach(c, s, idsToToggle, 1), id)
        ELSE ToggleEach(c, MinimizePromote(c, s, id), idsToToggle, 1)

NewWindow(c, app) ==
  LET openWindowsCount == Len(SelectSeq(c.windows, LAMBDA win : ~win.isMinimized))
      staggerOffset == StaggerStep * (openWindowsCount % StaggerCycle)
      defaultWidth == IF app.defaultSize = NoState THEN FallbackWidth ELSE app.defaultSize[1]
      defaultHeight == IF app.defaultSize = NoState THEN FallbackHeight ELSE app.defaultSize[2]
  IN  [ id |-> WinId(c.nextWindowId),
        appId |-> app.id,
        x |-> (innerWidth \div 2) - (defaultWidth \div 2) + staggerOffset,
        y |-> Max(menuBarHeight + MenuBarMargin,
                  ((innerHeight - defaultHeight) \div 2) - CenterLift + staggerOffset),
        width |-> defaultWidth,
        height |-> defaultHeight,
        zIndex |-> c.nextZIndex,
        isMinimized |-> FALSE,
        isMaximized |-> FALSE,
        isFullScreen |-> FALSE,
        preMaximizedState |-> NoState ]

\* windows.find(win => win.appId === app.id && !app.allowMultiInstance)
ExistingIndex(ws, app) ==
  {i \in DOMAIN ws : ws[i].appId = app.id /\ ~app.allowMultiInstance}

HasExisting(ws, app) == ExistingIndex(ws, app) # {}

ExistingWindow(ws, app) ==
  ws[CHOOSE i \in ExistingIndex(ws, app) : \A j \in ExistingIndex(ws, app) : i <= j]

\* openApp that hands a new window the current z-index without advancing
\* the counter.
openAppNoBump(c, s, app) ==
  LET s0 == [s EXCEPT !.launchpadOpen = FALSE]
  IN  IF HasExisting(c.windows, app)
        THEN LET existingWindow == ExistingWindow(c.windows, app)
             IN  IF existingWindow.isMinimized
                   THEN toggleMinimize(c, s0, existingWindow.id, TRUE)
                   ELSE focusWindow(c, s0, existingWindow.id)
        ELSE LET newWindow == NewWindow(c, app)
             IN  [s0 EXCEPT !.windows = Append(s0.windows, newWindow),
                            !.activeWindowId = newWindow.id,
                            !.nextWindowId = s0.nextWindowId + 1]

\* The instance found is minimized where toggleMinimize is called, so that
\* call promotes nothing and the time its updater runs makes no difference.
openApp(c, s, app) ==
  LET s0 == [s EXCEPT !.launchpadOpen = FALSE]
  IN  IF HasExisting(c.windows, app)
        THEN LET existingWindow == ExistingWindow(c.windows, app)
             IN  IF existingWindow.isMinimized
                   THEN toggleMinimize(c, s0, existingWindow.id, TRUE)
                   ELSE focusWindow(c, s0, existingWindow.id)
        ELSE LET newWindow == NewWindow(c, app)
             IN  [s0 EXCEPT !.windows = Append(s0.windows, newWindow),
                            !.activeWindowId = newWindow.id,
                            !.nextZIndex = s0.nextZIndex + 1,
                            !.nextWindowId = s0.nextWindowId + 1]

closeWindow(c, s, id) ==
  LET idsToClose == GroupOf(c.windowPairs, id)
      s1 == IF \E i \in DOMAIN idsToClose : idsToClose[i] = c.fullScreenWindowId
              THEN [s EXCEPT !.fullScreenWindowId = Null] ELSE s
      s2 == [s1 EXCEPT
               !.windows = SelectSeq(s1.windows, LAMBDA win : ~Includes(idsToClose, win.id)),
               !.windowPairs = SelectSeq(s1.windowPairs, LAMBDA p : ~Includes(p, id))]
  IN  IF c.activeWindowId # Null /\ Includes(idsToClose, c.activeWindowId)
        THEN PromoteNext(c, s2, idsToClose)
        ELSE s2

\* { ...win, isFullScreen: false, ...win.preMaximizedState }
SpreadState(win) ==
  IF win.preMaximizedState = NoState THEN win
  ELSE [win EXCEPT !.x = win.preMaximizedState[1], !.y = win.preMaximizedState[2],
                   !.width = win.preMaximizedState[3], !.height = win.preMaximizedState[4]]

FullScreenOne(win) ==
  IF win.isFullScreen
    THEN SpreadState([win EXCEPT !.isFullScreen = FALSE])
    ELSE [win EXCEPT !.isFullScreen = TRUE,
                     !.preMaximizedState =
                        IF win.isMaximized THEN win.preMaximizedState ELSE Geometry(win)]

toggleFullScreen(c, s, id) ==
  LET s1 == IF HasWindow(s.windows, id)
              THEN [s EXCEPT
                      !.fullScreenWindowId =
                         IF FindWindow(s.windows, id).isFullScreen THEN Null ELSE id,
                      !.windows = [i \in DOMAIN s.windows |->
                                    LET win == s.windows[i]
                                    IN  IF win.id # id
                                          THEN win
                                          ELSE FullScreenOne(win)]]
              ELSE s
  IN  focusWindow(c, s1, id)

\* toggleMaximize keeping a snapshot that is already there
\* (preMaximizedState: win.preMaximizedState ?? { ... }).
MaximizeOneKeepSnapshot(win) ==
  IF win.isMaximized
    THEN SpreadState([win EXCEPT !.isMaximized = FALSE])
    ELSE [win EXCEPT !.isMaximized = TRUE,
                     !.preMaximizedState =
                        IF win.preMaximizedState = NoState
                          THEN Geometry(win) ELSE win.preMaximizedState]

MaximizeOne(win) ==
  IF win.isMaximized
    THEN SpreadState([win EXCEPT !.isMaximized = FALSE])
    ELSE [win EXCEPT !.isMaximized = TRUE, !.preMaximizedState = Geometry(win)]

toggleMaximize(c, s, id) ==
  LET s1 == [s EXCEPT !.windows = [i \in DOMAIN s.windows |->
                                    LET win == s.windows[i]
                                    IN  IF win.id # id
                                          THEN win
                                          ELSE MaximizeOne(win)]]
  IN  focusWindow(c, s1, id)

updateWindowPosition(c, s, id, newX, newY) ==
  IF ~HasWindow(c.windows, id) THEN s
  ELSE
    LET mover == FindWindow(c.windows, id)
        deltaX == newX - mover.x
        deltaY == newY - mover.y
        idsToMove == GroupOf(c.windowPairs, id)
    IN  [s EXCEPT !.windows = [i \in DOMAIN s.windows |->
                                LET win == s.windows[i]
                                IN  IF Includes(idsToMove, win.id)
                                      THEN [win EXCEPT !.x = win.x + deltaX, !.y = win.y + deltaY]
                                      ELSE win]]

updateWindowSize(c, s, id, newWidth, newHeight) ==
  [s EXCEPT !.windows = [i \in DOMAIN s.windows |->
                          LET win == s.windows[i]
                          IN  IF win.id = id
                                THEN [win EXCEPT !.width = newWidth, !.height = newHeight]
                                ELSE win]]

\* Position in pairs of windowPairs.find(p => p.includes(id)), 0 for
\* undefined: the handlers below compare records by identity (p !== existingPair).
FindPairIndex(pairs, id) ==
  IF \E i \in DOMAIN pairs : Includes(pairs[i], id)
    THEN CHOOSE i \in DOMAIN pairs :
           /\ Includes(pairs[i], id)
           /\ \A j \in 1..(i - 1) : ~Includes(pairs[j], id)
    ELSE 0

\* prev.filter(p => p !== existingPair)
WithoutRecord(pairs, n) ==
  [i \in 1..(Len(pairs) - 1) |-> IF i < n THEN pairs[i] ELSE pairs[i + 1]]

\* startPairing that, having removed the record of id, also makes id the
\* pending source.
startPairingRearm(c, s, id) ==
  LET existingPair == FindPairIndex(c.windowPairs, id)
  IN  IF existingPair # 0
        THEN [s EXCEPT !.windowPairs = WithoutRecord(s.windowPairs, existingPair),
                       !.pairingWindowId = id]
        ELSE [s EXCEPT !.pairingWindowId = id]

startPairing(c, s, id) ==
  LET existingPair == FindPairIndex(c.windowPairs, id)
  IN  IF existingPair # 0
        THEN [s EXCEPT !.windowPairs = WithoutRecord(s.windowPairs, existingPair)]
        ELSE [s EXCEPT !.pairingWindowId = id]

\* completePairing that leaves the pending source in place.
completePairingKeepSource(c, s, targetId) ==
  IF c.pairingWindowId # Null /\ c.pairingWindowId # targetId
    THEN LET existingPair == FindPairIndex(c.windowPairs, c.pairingWindowId)
         IN  IF existingPair # 0
               THEN [s EXCEPT !.windowPairs[existingPair] =
                       Append(s.windowPairs[existingPair], targetId)]
               ELSE [s EXCEPT !.windowPairs =
                       Append(s.windowPairs, <<c.pairingWindowId, targetId>>)]
    ELSE s

completePairing(c, s, targetId) ==
  LET s1 ==
        IF c.pairingWindowId # Null /\ c.pairingWindowId # targetId
          THEN LET existingPair == FindPairIndex(c.windowPairs, c.pairingWindowId)
               IN  IF existingPair # 0
                     THEN [s EXCEPT !.windowPairs[existingPair] =
                             Append(s.windowPairs[existingPair], targetId)]
                     ELSE [s EXCEPT !.windowPairs =
                             Append(s.windowPairs, <<c.pairingWindowId, targetId>>)]
          ELSE s
  IN  [s1 EXCEPT !.pairingWindowId = Null]

\* ------------------------------------------------ state machine
\* A window as an event found it: absent, or its bounds and flags.
NoPre == [present |-> FALSE, geometry |-> NoState, isMaximized |-> FALSE, isFullScreen |-> FALSE]

PreOf(ws, id) ==
  IF HasWindow(ws, id)
    THEN [present |-> TRUE, geometry |-> Geometry(FindWindow(ws, id)),
          isMaximized |-> FindWindow(ws, id).isMaximized,
          isFullScreen |-> FindWindow(ws, id).isFullScreen]
    ELSE NoPre

\* lastOp records the last event: the handler, its id argument, the
\* requested position or size, the branch it took, the target window as a
\* maximize or fullscreen toggle found it (pre) and, when the event before
\* was the same toggle of the same window, as that one found it (first).
\* gesture follows one pairing gesture: for a completePairing that comes
\* directly after a startPairing that set the pending source, that source;
\* for a startPairing(id) that comes directly after such a completePairing
\* with source id, the target of that completePairing; null otherwise.
Op(name, id, arg, note, pre) ==
  [op |-> name, id |-> id, arg |-> arg, note |-> note, pre |-> pre,
   first |-> IF lastOp.op = name /\ lastOp.id = id THEN lastOp.pre ELSE NoPre,
   gesture |->
     IF name = "completePairing" /\ lastOp.op = "startPairing" /\ lastOp.note = "pending"
       THEN lastOp.id
     ELSE IF name = "startPairing" /\ lastOp.op = "completePairing" /\ lastOp.gesture = id
       THEN lastOp.id
     ELSE Null]

\* Ids a handler can be handed: those of windows created so far, closed
\* ones included (an event may arrive for a window that is gone).
IssuedIds == {WinId(n) : n \in 0..(nextWindowId - 1)}

WithinBounds(post) ==
  post.nextWindowId <= MaxWindowId

\* Commit the updates a handler queued.
Commit(post) ==
  /\ WithinBounds(post)
  /\ events' = events + 1
  /\ windows' = post.windows
  /\ activeWindowId' = post.activeWindowId
  /\ nextZIndex' = post.nextZIndex
  /\ launchpadOpen' = post.launchpadOpen
  /\ nextWindowId' = post.nextWindowId
  /\ fullScreenWindowId' = post.fullScreenWindowId
  /\ windowPairs' = post.windowPairs
  /\ pairingWindowId' = post.pairingWindowId
  /\ UNCHANGED aiVars

\* A performRequest call that has not started: its locals, the key index of
\* the client whose request it awaits, the error it threw, and the key
\* indices it has issued the request with so far.
IdleCall ==
  [pc |-> "idle", initialKeyIndex |-> 0, attempts |-> 0, client |-> Null,
   error |-> "none", usedKeys |-> <<>>]

Init ==
  /\ windows = <<>>
  /\ activeWindowId = Null
  /\ nextZIndex = InitialZIndex
  /\ launchpadOpen = FALSE
  /\ nextWindowId = 0
  /\ fullScreenWindowId = Null
  /\ windowPairs = <<>>
  /\ pairingWindowId = Null
  /\ events = 0
  /\ lastOp = [op |-> "init", id |-> Null, arg |-> NoState, note |-> "",
               pre |-> NoPre, first |-> NoPre, gesture |-> Null]
  /\ currentKeyIndex = 0
  /\ calls = [p \in 1..NumCalls |-> IdleCall]

OpenNote(app) ==
  IF ~HasExisting(windows, app) THEN "new"
  ELSE IF ExistingWindow(windows, app).isMinimized THEN "restore" ELSE "focus"

OpenApp ==
  \E app \in APPS :
    /\ Commit(openApp(St, St, app))
    /\ lastOp' = Op("openApp",
                    IF HasExisting(windows, app)
                      THEN ExistingWindow(windows, app).id ELSE WinId(nextWindowId),
                    NoState, OpenNote(app), NoPre)

FocusNote(id) ==
  IF id = activeWindowId /\ ~launchpadOpen THEN "noop" ELSE "raise"

FocusWindow ==
  \E id \in IssuedIds :
    /\ Commit(focusWindow(St, St, id))
    /\ lastOp' = Op("focusWindow", id, NoState, FocusNote(id), NoPre)

MinimizeNote(id) ==
  IF ~HasWindow(windows, id) THEN "absent"
  ELSE IF FindWindow(windows, id).isMinimized THEN "restore" ELSE "minimize"

ToggleMinimize ==
  \E id \in IssuedIds, eager \in BOOLEAN :
    /\ Commit(toggleMinimize(St, St, id, eager))
    /\ lastOp' = Op("toggleMinimize", id, NoState, MinimizeNote(id), NoPre)

CloseWindow ==
  \E id \in IssuedIds :
    /\ Commit(closeWindow(St, St, id))
    /\ lastOp' = Op("closeWindow", id, NoState, "", NoPre)

ToggleFullScreen ==
  \E id \in IssuedIds :
    /\ Commit(toggleFullScreen(St, St, id))
    /\ lastOp' = Op("toggleFullScreen", id, NoState, "", PreOf(windows, id))

ToggleMaximize ==
  \E id \in IssuedIds :
    /\ Commit(toggleMaximize(St, St, id))
    /\ lastOp' = Op("toggleMaximize", id, NoState, "", PreOf(windows, id))

UpdateWindowPosition ==
  \E id \in IssuedIds, target \in DragTargets :
    /\ Commit(updateWindowPosition(St, St, id, target[1], target[2]))
    /\ lastOp' = Op("updateWindowPosition", id, target, "", NoPre)

UpdateWindowSize ==
  \E id \in IssuedIds, target \in ResizeTargets :
    /\ Commit(updateWindowSize(St, St, id, target[1], target[2]))
    /\ lastOp' = Op("updateWindowSize", id, target, "", NoPre)

PairingNote(id) ==
  IF FindPairIndex(windowPairs, id) # 0 THEN "dissolve" ELSE "pending"

StartPairing ==
  \E id \in IssuedIds :
    /\ Commit(startPairing(St, St, id))
    /\ lastOp' = Op("startPairing", id, NoState, PairingNote(id), NoPre)

CompletePairing ==
  \E id \in IssuedIds :
    /\ Commit(completePairing(St, St, id))
    /\ lastOp' = Op("completePairing", id, NoState, "", NoPre)

\* const fullScreenInstance = windows.find(w => w.id === fullScreenWindowId):
\* while it exists the fullscreen layout is rendered, whose dock ignores the
\* launcher button and which has neither launcher nor clickable desktop.
fullScreenInstance == HasWindow(windows, fullScreenWindowId)

\* Dock onLaunchpadClick: setLaunchpadOpen(prev => !prev)
LaunchpadClick ==
  /\ ~fullScreenInstance
  /\ Commit([St EXCEPT !.launchpadOpen = ~St.launchpadOpen])
  /\ lastOp' = Op("launchpadClick", Null, NoState, "", NoPre)

\* Launchpad onClose: setLaunchpadOpen(false)
LaunchpadClose ==
  /\ ~fullScreenInstance
  /\ launchpadOpen
  /\ Commit([St EXCEPT !.launchpadOpen = FALSE])
  /\ lastOp' = Op("launchpadClose", Null, NoState, "", NoPre)

\* main onClick: pairingWindowId && setPairingWindowId(null)
DesktopClick ==
  /\ ~fullScreenInstance
  /\ Commit(IF pairingWindowId # Null THEN [St EXCEPT !.pairingWindowId = Null] ELSE St)
  /\ lastOp' = Op("desktopClick", Null, NoState, "", NoPre)

\* Every event of the shell, within a budget of n events.
Within(n) == events < n

Next ==
  \/ Within(MaxEvents) /\ OpenApp
  \/ Within(MaxEvents) /\ FocusWindow
  \/ Within(MaxEvents) /\ ToggleMinimize
  \/ Within(MaxEvents) /\ CloseWindow
  \/ Within(MaxEvents) /\ ToggleFullScreen
  \/ Within(MaxEvents) /\ ToggleMaximize
  \/ Within(MaxEvents) /\ UpdateWindowPosition
  \/ Within(MaxEvents) /\ UpdateWindowSize
  \/ Within(MaxEvents) /\ StartPairing
  \/ Within(MaxEvents) /\ CompletePairing
  \/ Within(MaxEvents) /\ LaunchpadClick
  \/ Within(MaxEvents) /\ LaunchpadClose
  \/ Within(MaxEvents) /\ DesktopClick

Spec == Init /\ [][Next]_vars

\* The runs made of opening, pairing, minimizing, closing and dragging
\* only: a part of the runs of the shell, followed further.
PairingNext ==
  \/ Within(MaxPairingEvents) /\ OpenApp
  \/ Within(MaxPairingEvents) /\ StartPairing
  \/ Within(MaxPairingEvents) /\ CompletePairing
  \/ Within(MaxPairingEvents) /\ ToggleMinimize
  \/ Within(MaxPairingEvents) /\ CloseWindow
  \/ Within(MaxPairingEvents) /\ UpdateWindowPosition

PairingSpec == Init /\ [][PairingNext]_vars

\* ------------------------------------------------- AI request proxy
\* getClient: the client made for API_KEYS[currentKeyIndex], null without
\* keys; a client is told apart by the index of its key.
getClient(keyIndex) == IF NumKeys = 0 THEN Null ELSE keyIndex

rotateKey(keyIndex) == (keyIndex + 1) % NumKeys

\* One pass of the while body up to its await: make the client for the
\* current key and issue the request with it.
IssueRequest(call, keyIndex) ==
  [call EXCEPT !.pc = "awaiting",
               !.client = getClient(keyIndex),
               !.usedKeys = Append(call.usedKeys, getClient(keyIndex))]

\* performRequest from its call to its first await (or to the throw of the
\* offline and no-keys checks); a slot whose call has ended takes the next.
PerformRequest(p) ==
  /\ calls[p].pc \in {"idle", "returned", "threw"}
  /\ \E onLine \in BOOLEAN :
       calls' = [calls EXCEPT ![p] =
                  IF ~onLine THEN [IdleCall EXCEPT !.pc = "threw", !.error = "offline"]
                  ELSE IF NumKeys = 0
                    THEN [IdleCall EXCEPT !.pc = "threw", !.error = "no-keys"]
                  ELSE IssueRequest([IdleCall EXCEPT !.initialKeyIndex = currentKeyIndex],
                                    currentKeyIndex)]
  /\ UNCHANGED <<currentKeyIndex, wmVars, events, lastOp>>

\* The awaited request resolves: performRequest returns its value.
RequestResolved(p) ==
  /\ calls[p].pc = "awaiting"
  /\ calls' = [calls EXCEPT ![p].pc = "returned", ![p].client = Null]
  /\ UNCHANGED <<currentKeyIndex, wmVars, events, lastOp>>

\* The awaited request rejects: the catch block, and the next pass of the
\* loop up to its await.
RequestRejected(p) ==
  /\ calls[p].pc = "awaiting"
  /\ LET attempts == calls[p].attempts + 1
     IN  IF attempts < NumKeys
           THEN /\ currentKeyIndex' = rotateKey(currentKeyIndex)
                /\ calls' = [calls EXCEPT ![p] =
                               IssueRequest([calls[p] EXCEPT !.attempts = attempts],
                                            rotateKey(currentKeyIndex))]
           ELSE /\ currentKeyIndex' = calls[p].initialKeyIndex
                /\ calls' = [calls EXCEPT ![p].attempts = attempts,
                                          ![p].pc = "threw",
                                          ![p].client = Null,
                                          ![p].error = "request"]
  /\ UNCHANGED <<wmVars, events, lastOp>>

\* The calls of the AI service, interleaved at their awaits.
RequestNext ==
  \/ \E p \in 1..NumCalls : PerformRequest(p)
  \/ \E p \in 1..NumCalls : RequestResolved(p)
  \/ \E p \in 1..NumCalls : RequestRejected(p)

RequestSpec == Init /\ [][RequestNext]_vars

\* ------------------------------------------------------------ claims
IsWindowId(id) == HasWindow(windows, id)

WindowOf(id) == FindWindow(windows, id)

\* The window id holds a z-index strictly above every other window's.
StrictlyTop(ws, id) ==
  \A i \in DOMAIN ws : ws[i].id # id => ws[i].zIndex < FindWindow(ws, id).zIndex

\* C1: a single-instance application has at most one window, and openApp
\* for one whose instance exists creates no window (window count and
\* nextWindowId as before) and leaves the instance active and not
\* minimized.
C1_SingleInstanceReuse ==
  [][ /\ \A app \in APPS : ~app.allowMultiInstance =>
           Cardinality({i \in DOMAIN windows' : windows'[i].appId = app.id}) <= 1
      /\ (lastOp'.op = "openApp" /\ lastOp'.note # "new") =>
           /\ Len(windows') = Len(windows)
           /\ nextWindowId' = nextWindowId
           /\ HasWindow(windows', lastOp'.id)
           /\ ~FindWindow(windows', lastOp'.id).isMinimized
           /\ activeWindowId' = lastOp'.id ]_vars

\* C2: right after focusWindow(id) for a window of the registry, that
\* window's zIndex is strictly greater than every other window's, whether
\* or not id was the active window already.
C2_FocusAlwaysTop ==
  (lastOp.op = "focusWindow" /\ IsWindowId(lastOp.id)) => StrictlyTop(windows, lastOp.id)

\* C2, amended: right after a focusWindow(id) that was not the no-op (id
\* was not the active window, or the launcher overlay was open), the window
\* id of the registry holds a zIndex strictly greater than every other
\* window's.
C2_FocusRaisesTop ==
  (lastOp.op = "focusWindow" /\ lastOp.note = "raise" /\ IsWindowId(lastOp.id))
    => StrictlyTop(windows, lastOp.id)

\* A focusWindow that raised a window over two others.
C2_Witness ==
  /\ lastOp.op = "focusWindow"
  /\ lastOp.note = "raise"
  /\ IsWindowId(lastOp.id)
  /\ Len(windows) = 3
  /\ activeWindowId = lastOp.id

\* The active id names the top window among those not minimized, and is
\* null when there is none.
ActiveIsTopVisible(ws, active) ==
  LET visible == {i \in DOMAIN ws : ~ws[i].isMinimized}
  IN  IF visible = {} THEN active = Null
      ELSE \E i \in visible :
             /\ ws[i].id = active
             /\ \A j \in visible : ws[j].zIndex <= ws[i].zIndex

\* C3: after closeWindow(id), or a toggleMinimize(id) that minimizes, with
\* the active window in the affected group, activeWindowId names the
\* remaining non-minimized window of greatest zIndex, and is null exactly
\* when none remains.
C3_PromoteTopVisible ==
  [][ ( /\ \/ lastOp'.op = "closeWindow"
           \/ lastOp'.op = "toggleMinimize" /\ lastOp'.note = "minimize"
        /\ activeWindowId # Null
        /\ Includes(GroupOf(windowPairs, lastOp'.id), activeWindowId) )
      => ActiveIsTopVisible(windows', activeWindowId') ]_vars

\* C4: the window named by activeWindowId, if any, is not minimized.
C4_ActiveNotMinimized ==
  (activeWindowId # Null /\ IsWindowId(activeWindowId))
    => ~WindowOf(activeWindowId).isMinimized

IdCommands ==
  {"closeWindow", "focusWindow", "toggleMinimize", "toggleMaximize", "toggleFullScreen",
   "updateWindowPosition", "updateWindowSize", "startPairing", "completePairing"}

\* C5: a command handed an id that is not in the registry leaves the window
\* list, activeWindowId, nextZIndex, fullScreenWindowId, pairingWindowId and
\* the pair set as they were.
C5_AbsentIdNoOp ==
  [][ (lastOp'.op \in IdCommands /\ ~HasWindow(windows, lastOp'.id))
      => /\ windows' = windows
         /\ activeWindowId' = activeWindowId
         /\ nextZIndex' = nextZIndex
         /\ fullScreenWindowId' = fullScreenWindowId
         /\ pairingWindowId' = pairingWindowId
         /\ windowPairs' = windowPairs ]_vars

RecordsWith(pairs, id) == {i \in DOMAIN pairs : Includes(pairs[i], id)}

\* C6: each window id is a member of at most one pair record.
C6_OnePairPerWindow ==
  \A n \in 0..(nextWindowId - 1) : Cardinality(RecordsWith(windowPairs, WinId(n))) <= 1

\* C7: closeWindow(id) on a window of a pairing group removes every member
\* of the group from the registry and the group's record from the pair set
\* (no record contains id afterwards, none is a shrunken copy), and leaves
\* the windows outside the group as they were.
C7_CloseDissolvesGroup ==
  [][ (lastOp'.op = "closeWindow" /\ HasWindow(windows, lastOp'.id)) =>
        \A g \in RecordsWith(windowPairs, lastOp'.id) :
          /\ \A k \in DOMAIN windowPairs[g] : ~HasWindow(windows', windowPairs[g][k])
          /\ \A i \in DOMAIN windowPairs' :
               /\ ~Includes(windowPairs'[i], lastOp'.id)
               /\ windowPairs'[i] \in Range(windowPairs)
          /\ windows' = SelectSeq(windows,
                          LAMBDA w : ~Includes(windowPairs[g], w.id)) ]_vars

\* The windows of ws, each with its position replaced by (0, 0): what a
\* drag must leave alone.
Unplaced(ws) == [i \in DOMAIN ws |-> [ws[i] EXCEPT !.x = 0, !.y = 0]]

\* C8: updateWindowPosition(A, x, y) moves A and its partner B of any pair
\* [A, B] by the delta (x - A.x, y - A.y) and no window outside the pair;
\* for an unpaired window it sets that window to (x, y) and moves no other.
\* Widths, heights, flags and z-indices stay.
C8_PairedDrag ==
  [][ (lastOp'.op = "updateWindowPosition" /\ HasWindow(windows, lastOp'.id)) =>
        LET id == lastOp'.id
            dx == lastOp'.arg[1] - FindWindow(windows, id).x
            dy == lastOp'.arg[2] - FindWindow(windows, id).y
            Moved(i, members) ==
              IF windows[i].id \in members
                THEN /\ windows'[i].x = windows[i].x + dx
                     /\ windows'[i].y = windows[i].y + dy
                ELSE /\ windows'[i].x = windows[i].x
                     /\ windows'[i].y = windows[i].y
        IN  /\ Unplaced(windows') = Unplaced(windows)
            /\ IF RecordsWith(windowPairs, id) = {}
                 THEN \A i \in DOMAIN windows : Moved(i, {id})
                 ELSE \A g \in RecordsWith(windowPairs, id) :
                        \A i \in DOMAIN windows : Moved(i, Range(windowPairs[g])) ]_vars

\* C9: toggleFullScreen(W) directly followed by toggleFullScreen(W), for a
\* window W that was not fullscreen, leaves W with the bounds it had before
\* the first call, also when W was maximized and moved before.
C9_FullScreenRoundTrip ==
  ( /\ lastOp.op = "toggleFullScreen"
    /\ lastOp.first.present
    /\ ~lastOp.first.isFullScreen
    /\ IsWindowId(lastOp.id) )
  => Geometry(WindowOf(lastOp.id)) = lastOp.first.geometry

\* C10: toggleMaximize(W) directly followed by toggleMaximize(W), for a
\* window W that was not maximized, leaves W with the bounds it had before
\* the first call and not maximized.
C10_MaximizeRoundTrip ==
  ( /\ lastOp.op = "toggleMaximize"
    /\ lastOp.first.present
    /\ ~lastOp.first.isMaximized )
  => /\ IsWindowId(lastOp.id)
     /\ Geometry(WindowOf(lastOp.id)) = lastOp.first.geometry
     /\ ~WindowOf(lastOp.id).isMaximized

\* Two toggleMaximize in a row on a window that had been dragged and
\* resized away from where it opened.
C10_Witness ==
  /\ lastOp.op = "toggleMaximize"
  /\ lastOp.first.present
  /\ ~lastOp.first.isMaximized
  /\ lastOp.pre.isMaximized
  /\ lastOp.first.geometry \in {<<t[1], t[2], r[1], r[2]>> : t \in DragTargets, r \in ResizeTargets}

\* C11: for distinct windows A and B of the registry, A in no pair,
\* startPairing(A) directly followed by completePairing(B) leaves a record
\* holding both A and B and no pending source; a startPairing(A) directly
\* after that leaves no record holding A (so none holding A and B), and no
\* pending source.
C11_PairThenDissolve ==
  /\ ( /\ lastOp.op = "completePairing"
       /\ lastOp.gesture # Null
       /\ lastOp.gesture # lastOp.id
       /\ IsWindowId(lastOp.gesture)
       /\ IsWindowId(lastOp.id) )
     => /\ \E i \in DOMAIN windowPairs :
             Includes(windowPairs[i], lastOp.gesture) /\ Includes(windowPairs[i], lastOp.id)
        /\ pairingWindowId = Null
  /\ ( /\ lastOp.op = "startPairing"
       /\ lastOp.gesture # Null
       /\ lastOp.gesture # lastOp.id
       /\ IsWindowId(lastOp.gesture)
       /\ IsWindowId(lastOp.id) )
     => /\ RecordsWith(windowPairs, lastOp.id) = {}
        /\ pairingWindowId = Null

\* startPairing(A), completePairing(B), startPairing(A) on two windows of
\* the registry, just done.
C11_Witness ==
  /\ lastOp.op = "startPairing"
  /\ lastOp.note = "dissolve"
  /\ lastOp.gesture # Null
  /\ lastOp.gesture # lastOp.id
  /\ IsWindowId(lastOp.gesture)
  /\ IsWindowId(lastOp.id)

\* C12: the windows whose isFullScreen flag is set are none when
\* fullScreenWindowId is null, and exactly the window it names otherwise.
C12_OneFullScreen ==
  {windows[i].id : i \in {j \in DOMAIN windows : windows[j].isFullScreen}}
    = IF fullScreenWindowId = Null THEN {} ELSE {fullScreenWindowId}

\* No window of ws has a smaller zIndex in post.
NoZIndexLowered(ws, post) ==
  \A i \in DOMAIN ws : \A j \in DOMAIN post :
    post[j].id = ws[i].id => post[j].zIndex >= ws[i].zIndex

\* C13: over every step, nextZIndex never decreases and is strictly larger
\* after every focusWindow call and every openApp call than before it, and
\* no window's zIndex is smaller after the step than before it.
C13_ZIndexStrictlyGrows ==
  [][ /\ nextZIndex' >= nextZIndex
      /\ lastOp'.op \in {"focusWindow", "openApp"} => nextZIndex' > nextZIndex
      /\ NoZIndexLowered(windows, windows') ]_vars

\* C13, amended: over every step, nextZIndex never decreases and no
\* window's zIndex is lowered; nextZIndex is strictly larger after every
\* focusWindow(id) and every openApp for a window id (the new one, or the
\* existing instance) unless id was the active window already and the
\* launcher overlay was closed.
C13_ZIndexGrowsOnRaise ==
  [][ /\ nextZIndex' >= nextZIndex
      /\ ( /\ lastOp'.op \in {"focusWindow", "openApp"}
           /\ ~(lastOp'.id = activeWindowId /\ ~launchpadOpen) )
         => nextZIndex' > nextZIndex
      /\ NoZIndexLowered(windows, windows') ]_vars

\* An openApp that restored a minimized instance, after the counter had
\* advanced at least twice, next to a window that stayed where it was.
C13_Witness ==
  /\ lastOp.op = "openApp"
  /\ lastOp.note = "restore"
  /\ activeWindowId = lastOp.id
  /\ Len(windows) >= 2
  /\ nextZIndex >= InitialZIndex + 3

\* C14: a step that starts with a pending pairing source and changes
\* activeWindowId through focusWindow, openApp, closeWindow or
\* toggleMinimize, or opens the launcher overlay, or is a click on the empty
\* desktop, ends with pairingWindowId null.
C14_FocusChangeCancelsPairing ==
  [][ ( /\ pairingWindowId # Null
        /\ \/ /\ lastOp'.op \in {"focusWindow", "openApp", "closeWindow", "toggleMinimize"}
              /\ activeWindowId' # activeWindowId
           \/ ~launchpadOpen /\ launchpadOpen'
           \/ lastOp'.op = "desktopClick" )
      => pairingWindowId' = Null ]_vars

\* C15: every window id held by a pair record is the id of a window of the
\* registry (so no record mentions a closed window).
C15_PairsNameWindows ==
  \A i \in DOMAIN windowPairs : \A k \in DOMAIN windowPairs[i] :
    IsWindowId(windowPairs[i][k])

\* C16: toggleMinimize(W1), for a pair record holding W1 whose members are
\* windows that are not minimized, leaves every member minimized and not
\* fullscreen, leaves fullScreenWindowId null if a member was fullscreen,
\* and leaves isMinimized and isFullScreen of the windows outside the
\* record as they were.
C16_MinimizeWholeGroup ==
  [][ lastOp'.op = "toggleMinimize" =>
        \A g \in RecordsWith(windowPairs, lastOp'.id) :
          LET members == Range(windowPairs[g])
          IN  (\A m \in members : HasWindow(windows, m) /\ ~FindWindow(windows, m).isMinimized)
              => /\ Len(windows') = Len(windows)
                 /\ \A i \in DOMAIN windows :
                      /\ windows'[i].id = windows[i].id
                      /\ IF windows[i].id \in members
                           THEN windows'[i].isMinimized /\ ~windows'[i].isFullScreen
                           ELSE /\ windows'[i].isMinimized = windows[i].isMinimized
                                /\ windows'[i].isFullScreen = windows[i].isFullScreen
                 /\ (\E i \in DOMAIN windows :
                       windows[i].id \in members /\ windows[i].isFullScreen)
                    => fullScreenWindowId' = Null ]_vars

\* The positions in ws of the windows outside ids that are not minimized
\* and hold the greatest zIndex among those.
TopRemaining(ws, ids) ==
  LET remaining == {i \in DOMAIN ws : ~Includes(ids, ws[i].id) /\ ~ws[i].isMinimized}
  IN  {i \in remaining : \A j \in remaining : ws[j].zIndex <= ws[i].zIndex}

\* C17: when closeWindow, or a toggleMinimize that minimizes, recomputes
\* the active window (the active window is in the affected group) and two
\* or more remaining non-minimized windows share the greatest zIndex, the
\* first of them in the window list becomes the active window.
C17_FirstOfTiedWins ==
  [][ ( /\ \/ lastOp'.op = "closeWindow"
           \/ lastOp'.op = "toggleMinimize" /\ lastOp'.note = "minimize"
        /\ activeWindowId # Null
        /\ Includes(GroupOf(windowPairs, lastOp'.id), activeWindowId)
        /\ Cardinality(TopRemaining(windows, GroupOf(windowPairs, lastOp'.id))) >= 2 )
      => LET tied == TopRemaining(windows, GroupOf(windowPairs, lastOp'.id))
         IN  activeWindowId' = windows[CHOOSE i \in tied : \A j \in tied : i <= j].id ]_vars

\* C18: a performRequest call issues the request at most once with each
\* credential (at most NumKeys attempts, no key index twice), and when it
\* has thrown the error of the last failed request it has tried every
\* credential; in every interleaving of the calls in flight.
C18_OncePerCredential ==
  \A p \in 1..NumCalls :
    /\ Len(calls[p].usedKeys) <= NumKeys
    /\ \A i, j \in DOMAIN calls[p].usedKeys :
         i # j => calls[p].usedKeys[i] # calls[p].usedKeys[j]
    /\ (calls[p].pc = "threw" /\ calls[p].error = "request")
         => Range(calls[p].usedKeys) = 0..(NumKeys - 1)

\* C19: no two windows of the registry hold the same zIndex, and every
\* window's zIndex is below nextZIndex.
C19_ZIndexNeverReused ==
  /\ \A i, j \in DOMAIN windows : i # j => windows[i].zIndex # windows[j].zIndex
  /\ \A i \in DOMAIN windows : windows[i].zIndex < nextZIndex

\* C20: the pending pairing source, when there is one, is a member of no
\* pair record, and every pair record holds exactly two distinct window
\* ids (no group of three or more).
C20_PairsAreTwo ==
  /\ pairingWindowId # Null => RecordsWith(windowPairs, pairingWindowId) = {}
  /\ \A i \in DOMAIN windowPairs :
       /\ Len(windowPairs[i]) = 2
       /\ windowPairs[i][1] # windowPairs[i][2]

\* A startPairing that has just made a window of the registry the pending
\* source while a record made by an earlier gesture is in the pair set.
C20_Witness ==
  /\ pairingWindowId # Null
  /\ IsWindowId(pairingWindowId)
  /\ Len(windowPairs) >= 1
  /\ lastOp.op = "startPairing"
  /\ lastOp.note = "pending"

====
